---------------------------- MODULE Spec2Model ----------------------------
(***************************************************************************)
(* State-machine model of src/l2x/synth/distributions.py: the discrete     *)
(* exponential-family engine DiscreteExpFamily and its TopK specialization.*)
(*                                                                         *)
(* Conventions                                                             *)
(*  - Indices are 1-based here (Python's range(n) is 1..n).                *)
(*  - A state vector is a sequence of 0/1 of length m.                     *)
(*  - float32 values are held in fixed point: ExpNeg(0) stands for 1.0.    *)
(*    exp overflows to +inf above ExpMax and underflows to 0 at ExpMin,    *)
(*    which is what float32 does for integer arguments.                    *)
(*  - torch.argsort is unstable: the order of equal keys is fixed by the   *)
(*    linked build, not by the program.  The variable order holds the      *)
(*    build's priority among equal keys; every priority is possible.       *)
(***************************************************************************)
EXTENDS Integers, Sequences, FiniteSets

MaxM == 3        \* largest dimensionality in SpecTopK
MaxMSmall == 2   \* largest dimensionality in Spec and SpecBatch
MaxBatch == 2    \* largest batch of map_2d

ExpMax == 88     \* float32: exp(x) = +inf for every integer x > 88
ExpMin == -104   \* float32: exp(x) = 0 for every integer x <= -104

\* coordinates of theta supplied by the caller: every weight is then 0 modulo
\* 200, clear of the float32 subnormal range, where exp is only approximate
ThetaVals == {-200, 0, 200}
NoiseVals == {0, 1}           \* values one noise_f() call may return

VARIABLES
  pc,            \* the caller: "new" (no instance yet), "idle", or "returned" (a result is at hand)
  m, k,          \* self.m, self.k
  order,         \* the build's argsort priority among equal keys
  _states,       \* self._states: [isNone, mat]
  enumCount,     \* how often the state matrix was materialized (line 128)
  access,        \* how the last operation read self.states: "none", "fresh", "cached" or "raised"
  ctx,           \* the caller's context object: [isNone, settable, hasEps, eps, hasSample, sample]
  ctxUsed,       \* _pam was already called with this ctx (history)
  drawn,         \* noise_f() invocations of the last operation
  op,            \* the last operation
  theta,         \* its theta argument (<<>> when it takes none)
  theta_2d,      \* map_2d's batch argument (<<>> otherwise)
  mu_f,          \* the mu_f given to grad_log_p ("None" or "alt")
  res            \* what the last operation returned or raised

vars == <<pc, m, k, order, _states, enumCount, access, ctx, ctxUsed, drawn,
          op, theta, theta_2d, mu_f, res>>

----------------------------------------------------------------------------
(* Values *)

Raised == [kind |-> "error", val |-> <<>>]
NoResult == [kind |-> "none", val |-> <<>>]
StateVec(v) == [kind |-> "state", val |-> v]
Matrix(x) == [kind |-> "matrix", val |-> x]
Scalar(x) == [kind |-> "scalar", val |-> x]
FloatVec(x) == [kind |-> "float", val |-> x]

\* a float32 vector: finite entries in fixed point, or all +inf, -inf or NaN
Fin(v) == [k |-> "fin", v |-> v]
InfVec == [k |-> "inf", v |-> <<>>]
NegInfVec == [k |-> "-inf", v |-> <<>>]
NaNVec == [k |-> "nan", v |-> <<>>]

NoCtx == [isNone |-> TRUE, settable |-> FALSE, hasEps |-> FALSE, eps |-> <<>>,
          hasSample |-> FALSE, sample |-> <<>>]

RECURSIVE SumSeq(_)
SumSeq(s) == IF s = <<>> THEN 0 ELSE Head(s) + SumSeq(Tail(s))

Min(a, b) == IF a < b THEN a ELSE b
Max(a, b) == IF a > b THEN a ELSE b

Priorities(n) == {p \in [1..n -> 1..n] : \A i, j \in 1..n : p[i] = p[j] => i = j}

----------------------------------------------------------------------------
(* TopK.states *)

RECURSIVE factorial(_)
factorial(n) == IF n <= 1 THEN 1 ELSE n * factorial(n - 1)

\* itertools.combinations(range(lo..n), r): the r-subsets in lexicographic order
RECURSIVE combinations(_, _, _)
combinations(lo, n, r) ==
  IF r = 0 THEN << <<>> >>
  ELSE IF n - lo + 1 < r THEN <<>>
  ELSE LET rest == combinations(lo + 1, n, r - 1)
       IN [i \in 1..Len(rest) |-> <<lo>> \o rest[i]] \o combinations(lo + 1, n, r)

\* A faulty variant of mat_x that marks only the first index of each
\* combination (mat_x[i, combs[i][0]] = 1); C1 tells the two apart.
mat_x_first_only(combs, n) ==
  [i \in 1..Len(combs) |->
     [j \in 1..n |-> IF Len(combs[i]) > 0 /\ combs[i][1] = j THEN 1 ELSE 0]]

\* lines 125-127: mat_x = zeros; mat_x[i, combs[i]] = 1
mat_x(combs, n) ==
  [i \in 1..Len(combs) |->
     [j \in 1..n |-> IF \E t \in 1..Len(combs[i]) : combs[i][t] = j THEN 1 ELSE 0]]

\* A faulty variant of is_cached that never finds the cache; C8 tells the
\* two apart.
never_cached(cur) == FALSE

\* line 119: the memoization test
is_cached(cur) == ~cur.isNone

\* the states property: [err, mat, fresh]; fresh when the matrix was just built
states(cur, n, kk) ==
  IF is_cached(cur) THEN [err |-> FALSE, mat |-> cur.mat, fresh |-> FALSE]
  ELSE IF kk < 0 THEN [err |-> TRUE, mat |-> <<>>, fresh |-> FALSE]       \* combinations: r must be non-negative
  ELSE LET combs == combinations(1, n, kk)
           n_states == Len(combs)
       IN IF n - kk < 0 THEN [err |-> TRUE, mat |-> <<>>, fresh |-> FALSE] \* factorial of a negative number
          ELSE IF n_states * factorial(kk) * factorial(n - kk) # factorial(n)
               THEN [err |-> TRUE, mat |-> <<>>, fresh |-> FALSE]          \* the assert
          ELSE [err |-> FALSE, mat |-> mat_x(combs, n), fresh |-> TRUE]

\* the effect of one access to self.states on the instance
Access(a) ==
  /\ _states' = IF a.fresh THEN [isNone |-> FALSE, mat |-> a.mat] ELSE _states
  /\ enumCount' = IF a.fresh THEN enumCount + 1 ELSE enumCount
  /\ access' = IF a.err THEN "raised" ELSE IF a.fresh THEN "fresh" ELSE "cached"

NoAccess == UNCHANGED <<_states, enumCount>> /\ access' = "none"

----------------------------------------------------------------------------
(* Exact inference: DiscreteExpFamily *)

MaxOf(w) == CHOOSE x \in {w[i] : i \in 1..Len(w)} : \A i \in 1..Len(w) : w[i] <= x

\* exp(-d) for an integer d >= 0, in fixed point (1.0 is 1000)
ExpNeg(d) ==
  CASE d = 0 -> 1000 [] d = 1 -> 368 [] d = 2 -> 135 [] d = 3 -> 50
    [] d = 4 -> 18 [] d = 5 -> 7 [] d = 6 -> 2 [] d = 7 -> 1 [] OTHER -> 0

One == ExpNeg(0)

Dot(row, th) == SumSeq([j \in 1..Len(row) |-> row[j] * th[j]])

\* self.states @ theta
weights(S, th) == [i \in 1..Len(S) |-> Dot(S[i], th)]

\* torch.log(torch.sum(torch.exp(w))) in float32, with no max-subtraction:
\*   +inf when some exp(w_i) or their sum exceeds the float32 range
\*        (FLT_MAX = 2.060 * exp(88));
\*   -inf when every exp(w_i) underflows to 0;
\*   else base + log(z / One), held as the pair (base, z).
log_partition(S, th) ==
  LET w == weights(S, th)
      top == MaxOf(w)
  IN IF top > ExpMax
        \/ SumSeq([i \in 1..Len(w) |-> ExpNeg(ExpMax - w[i])]) > 2060
     THEN [k |-> "inf", base |-> 0, z |-> 0]
     ELSE IF top <= ExpMin
     THEN [k |-> "-inf", base |-> 0, z |-> 0]
     ELSE [k |-> "fin", base |-> top,
           z |-> SumSeq([i \in 1..Len(w) |-> ExpNeg(top - w[i])])]

\* torch.exp(weights - log_partition)
pmf(S, th) ==
  LET w == weights(S, th)
      lp == log_partition(S, th)
  IN CASE lp.k = "inf" -> Fin([i \in 1..Len(w) |-> 0])      \* exp(w - inf) = 0
       [] lp.k = "-inf" -> InfVec                            \* exp(w + inf) = inf
       [] OTHER -> Fin([i \in 1..Len(w) |-> (ExpNeg(lp.base - w[i]) * One) \div lp.z])

\* self.pmf(theta) @ self.states
marginals(S, th) ==
  LET p == pmf(S, th)
      n == Len(S[1])
  IN IF p.k = "fin"
     THEN Fin([j \in 1..n |-> SumSeq([i \in 1..Len(S) |-> p.v[i] * S[i][j]])])
     ELSE IF \E i \in 1..Len(S), j \in 1..n : S[i][j] = 0
          THEN NaNVec                                        \* inf * 0
          ELSE InfVec

\* the indices rng.choice can return: those of non-zero mass; none when the
\* pmf is no probability vector (numpy raises ValueError)
Support(S, th) ==
  LET w == weights(S, th)
  IN IF log_partition(S, th).k # "fin" THEN {}
     ELSE {i \in 1..Len(w) : MaxOf(w) - w[i] < -ExpMin}

\* torch.argmax: the first index of the largest entry
argmax(w) == CHOOSE i \in 1..Len(w) :
               /\ \A j \in 1..Len(w) : w[j] <= w[i]
               /\ \A j \in 1..(i - 1) : w[j] < w[i]

\* DiscreteExpFamily.map
base_map(S, th) == S[argmax(weights(S, th))]

----------------------------------------------------------------------------
(* TopK.map and TopK.map_2d *)

\* torch.argsort(th, descending=True); equal keys in the build's order ord
argsort(th, ord) ==
  LET n == Len(th)
      before(i, j) == th[i] > th[j] \/ (th[i] = th[j] /\ ord[i] < ord[j])
      pos == [i \in 1..n |-> 1 + Cardinality({j \in 1..n : before(j, i)})]
  IN [p \in 1..n |-> CHOOSE i \in 1..n : pos[i] = p]

\* the Python slice s[:kk]
SliceTo(s, kk) ==
  IF kk >= 0 THEN SubSeq(s, 1, Min(kk, Len(s)))
  ELSE SubSeq(s, 1, Max(Len(s) + kk, 0))

\* A faulty variant of map that keeps the kk smallest coordinates (an
\* ascending argsort); C3 tells the two apart.
map_smallest(th, n, kk, ord) ==
  LET srt == argsort(th, ord)
      ind1 == SubSeq(srt, Max(Len(srt) - kk, 0) + 1, Len(srt))
  IN [j \in 1..n |-> IF \E t \in 1..Len(ind1) : ind1[t] = j THEN 1 ELSE 0]

\* TopK.map
map(th, n, kk, ord) ==
  LET ind1 == SliceTo(argsort(th, ord), kk)
  IN [j \in 1..n |-> IF \E t \in 1..Len(ind1) : ind1[t] = j THEN 1 ELSE 0]

\* line 137: ind1_2d.reshape(-1), the rows of a matrix one after another
RECURSIVE reshape(_)
reshape(s) == IF s = <<>> THEN <<>> ELSE Head(s) \o reshape(Tail(s))

\* A faulty variant of scatter_2d whose dim_0 tiles the row indices
\* (0, 1, 0, 1, ...) where the code repeats each (0, 0, 1, 1, ...); C4 tells
\* the two apart.
scatter_2d_tiled(ind1_2d, batch_size, n, kk) ==
  LET dim_1 == reshape(ind1_2d)
      len == Len(dim_1)
      dim_0 == [t \in 1..len |-> ((t - 1) % batch_size) + 1]
      hit == {<<dim_0[t], dim_1[t]>> : t \in 1..len}
  IN [err |-> FALSE,
      mat |-> [i \in 1..batch_size |->
                [j \in 1..n |-> IF <<i, j>> \in hit THEN 1 ELSE 0]]]

\* line 138: state_2d[dim_0, dim_1] = 1. on zeros((batch_size, n)), where
\* dim_0 is each row index repeated kk times and dim_1 is ind1_2d flattened
scatter_2d(ind1_2d, batch_size, n, kk) ==
  LET dim_1 == reshape(ind1_2d)
      len0 == batch_size * kk
      len1 == Len(dim_1)
      dim_0 == [t \in 1..len0 |-> ((t - 1) \div kk) + 1]
      len == Max(len0, len1)
      hit == {<<IF len0 = 1 THEN dim_0[1] ELSE dim_0[t],
                IF len1 = 1 THEN dim_1[1] ELSE dim_1[t]>> : t \in 1..len}
  IN IF len0 # len1 /\ len0 # 1 /\ len1 # 1
     THEN [err |-> TRUE, mat |-> <<>>]                      \* index shapes do not broadcast
     ELSE [err |-> FALSE,
           mat |-> [i \in 1..batch_size |->
                     [j \in 1..n |-> IF <<i, j>> \in hit THEN 1 ELSE 0]]]

\* TopK.map_2d: [err, mat]
map_2d(th2, n, kk, ord) ==
  IF kk < 0 THEN [err |-> TRUE, mat |-> <<>>]               \* repeat(1, k) with k < 0
  ELSE scatter_2d([i \in 1..Len(th2) |-> SliceTo(argsort(th2[i], ord), kk)],
                  Len(th2), n, kk)

Thetas(n) == [1..n -> ThetaVals]

----------------------------------------------------------------------------
(* perturb_and_map and grad_log_p *)

\* A faulty variant of has_eps that never sees the cached noise; C5 tells
\* the two apart.
has_eps_never(c) == FALSE

\* line 80: hasattr(ctx, 'eps'); None has no attributes
has_eps(c) == ~c.isNone /\ c.hasEps

\* A faulty variant of store_eps that also records the noise as the
\* sample; C10 tells the two apart.
store_eps_and_sample(c, eps) ==
  IF c.isNone \/ ~c.settable THEN c
  ELSE [c EXCEPT !.hasEps = TRUE, !.eps = eps, !.hasSample = TRUE, !.sample = eps]

\* lines 84-88: ctx.eps = eps, skipped for None, given up on AttributeError
store_eps(c, eps) ==
  IF c.isNone \/ ~c.settable THEN c
  ELSE [c EXCEPT !.hasEps = TRUE, !.eps = eps]

\* lines 89-90: self.map(theta + eps)
perturbed_map(th, eps, n, kk, ord) ==
  map([j \in 1..n |-> th[j] + eps[j]], n, kk, ord)

\* a marginal function the caller may pass as mu_f: the MAP state as a
\* cheap estimate of the marginals
alt_mu(th, n, kk, ord) ==
  LET z == map(th, n, kk, ord) IN Fin([j \in 1..n |-> z[j] * One])

\* A faulty variant of minus with the operands swapped (mu_theta -
\* ctx.sample); C7 tells the two apart.
minus_swapped(z, mu) ==
  CASE mu.k = "fin" -> Fin([j \in 1..Len(z) |-> mu.v[j] - z[j] * One])
    [] mu.k = "inf" -> InfVec
    [] OTHER -> NaNVec

\* ctx.sample - mu_theta on float32 vectors
minus(z, mu) ==
  CASE mu.k = "fin" -> Fin([j \in 1..Len(z) |-> z[j] * One - mu.v[j]])
    [] mu.k = "inf" -> NegInfVec
    [] OTHER -> NaNVec

\* A faulty variant of glp_result that takes a missing sample for zeros;
\* C6 tells the two apart.
glp_result_unchecked(c, mu) ==
  IF c.isNone \/ ~c.hasSample
  THEN FloatVec(IF mu.k = "fin" THEN Fin([j \in 1..Len(mu.v) |-> 0 - mu.v[j]]) ELSE mu)
  ELSE FloatVec(IF mu.k = "fin"
                THEN Fin([j \in 1..Len(mu.v) |-> c.sample[j] * One - mu.v[j]])
                ELSE IF mu.k = "inf" THEN NegInfVec ELSE NaNVec)

\* lines 104-105 of _glp
glp_result(c, mu) ==
  IF c.isNone \/ ~c.hasSample THEN Raised      \* the assert
  ELSE FloatVec(minus(c.sample, mu))

NoiseVecs(n) == [1..n -> NoiseVals]

----------------------------------------------------------------------------
Init ==
  /\ pc = "new"
  /\ m = 0
  /\ k = 0
  /\ order = <<>>
  /\ _states = [isNone |-> TRUE, mat |-> <<>>]
  /\ enumCount = 0
  /\ access = "none"
  /\ ctx = NoCtx
  /\ ctxUsed = FALSE
  /\ drawn = 0
  /\ op = "none"
  /\ theta = <<>>
  /\ theta_2d = <<>>
  /\ mu_f = "None"
  /\ res = NoResult

\* TopK.__init__(m, k): no argument is validated
Construct(maxdim) ==
  /\ pc = "new"
  /\ \E mm \in 1..maxdim, kk \in (-1)..(maxdim + 1) :
       /\ kk <= mm + 1
       /\ m' = mm
       /\ k' = kk
       /\ \E p \in Priorities(mm) : order' = p
  /\ pc' = "idle"
  /\ _states' = [isNone |-> TRUE, mat |-> <<>>]
  /\ op' = "none"
  /\ UNCHANGED <<enumCount, access, ctx, ctxUsed, drawn, theta, theta_2d, mu_f, res>>

\* reading topk.states
States ==
  /\ pc = "idle"
  /\ pc' = "returned"
  /\ LET a == states(_states, m, k)
     IN /\ Access(a)
        /\ res' = IF a.err THEN Raised ELSE Matrix(a.mat)
  /\ op' = "states"
  /\ theta' = <<>>
  /\ theta_2d' = <<>>
  /\ drawn' = 0
  /\ UNCHANGED <<m, k, order, ctx, ctxUsed, mu_f>>

\* an operation that takes theta and reads self.states
ThetaOp(name, th) ==
  /\ pc = "idle"
  /\ pc' = "returned"
  /\ op' = name
  /\ theta' = th
  /\ theta_2d' = <<>>
  /\ drawn' = 0
  /\ UNCHANGED <<m, k, order, ctx, ctxUsed, mu_f>>

NStates ==
  /\ pc = "idle"
  /\ pc' = "returned"
  /\ LET a == states(_states, m, k)
     IN /\ Access(a)
        /\ res' = IF a.err THEN Raised ELSE Scalar(Len(a.mat))
  /\ op' = "n_states"
  /\ theta' = <<>>
  /\ theta_2d' = <<>>
  /\ drawn' = 0
  /\ UNCHANGED <<m, k, order, ctx, ctxUsed, mu_f>>

Weights ==
  \E th \in Thetas(m) :
    /\ ThetaOp("weights", th)
    /\ LET a == states(_states, m, k)
       IN /\ Access(a)
          /\ res' = IF a.err THEN Raised ELSE [kind |-> "weights", val |-> weights(a.mat, th)]

LogPartition ==
  \E th \in Thetas(m) :
    /\ ThetaOp("log_partition", th)
    /\ LET a == states(_states, m, k)
       IN /\ Access(a)
          /\ res' = IF a.err THEN Raised ELSE Scalar(log_partition(a.mat, th))

Pmf ==
  \E th \in Thetas(m) :
    /\ ThetaOp("pmf", th)
    /\ LET a == states(_states, m, k)
       IN /\ Access(a)
          /\ res' = IF a.err THEN Raised ELSE FloatVec(pmf(a.mat, th))

Marginals ==
  \E th \in Thetas(m) :
    /\ ThetaOp("marginals", th)
    /\ LET a == states(_states, m, k)
       IN /\ Access(a)
          /\ res' = IF a.err THEN Raised ELSE FloatVec(marginals(a.mat, th))

\* sample(theta, rng): rng.choice picks an index of non-zero mass
Sample ==
  \E th \in Thetas(m) :
    /\ ThetaOp("sample", th)
    /\ LET a == states(_states, m, k)
       IN /\ Access(a)
          /\ IF a.err \/ Support(a.mat, th) = {}
             THEN res' = Raised
             ELSE \E indx_ch \in Support(a.mat, th) : res' = StateVec(a.mat[indx_ch])

\* DiscreteExpFamily.map, called on the TopK instance
BaseMap ==
  \E th \in Thetas(m) :
    /\ ThetaOp("base_map", th)
    /\ LET a == states(_states, m, k)
       IN /\ Access(a)
          /\ res' = IF a.err THEN Raised ELSE StateVec(base_map(a.mat, th))

\* TopK.map: reads neither self.states nor self._states
Map ==
  \E th \in Thetas(m) :
    /\ ThetaOp("map", th)
    /\ NoAccess
    /\ res' = StateVec(map(th, m, k, order))

Map2d ==
  /\ pc = "idle"
  /\ pc' = "returned"
  /\ \E b \in 1..MaxBatch : \E th2 \in [1..b -> Thetas(m)] :
       /\ theta_2d' = th2
       /\ LET r == map_2d(th2, m, k, order)
          IN res' = IF r.err THEN Raised ELSE Matrix(r.mat)
  /\ op' = "map_2d"
  /\ theta' = <<>>
  /\ drawn' = 0
  /\ NoAccess
  /\ UNCHANGED <<m, k, order, ctx, ctxUsed, mu_f>>

\* the caller drops the result and is ready for its next call
Return ==
  /\ pc = "returned"
  /\ pc' = "idle"
  /\ op' = "none"
  /\ theta' = <<>>
  /\ theta_2d' = <<>>
  /\ drawn' = 0
  /\ res' = NoResult
  /\ mu_f' = "None"
  /\ access' = "none"
  /\ UNCHANGED <<m, k, order, _states, enumCount, ctx, ctxUsed>>

\* the caller makes its per-example context object
NewCtx ==
  /\ pc = "idle"
  /\ ctx.isNone
  /\ \E settable \in BOOLEAN :
       ctx' = [NoCtx EXCEPT !.isNone = FALSE, !.settable = settable]
  /\ ctxUsed' = FALSE
  /\ UNCHANGED <<pc, m, k, order, _states, enumCount, access, drawn, op, theta, theta_2d, mu_f, res>>

\* the caller saves the forward value: ctx.sample = <the state just returned>
SetSample ==
  /\ pc = "returned"
  /\ res.kind = "state"
  /\ ~ctx.isNone
  /\ ctx.settable
  /\ ctx' = [ctx EXCEPT !.hasSample = TRUE, !.sample = res.val]
  /\ pc' = "idle"
  /\ op' = "none"
  /\ theta' = <<>>
  /\ theta_2d' = <<>>
  /\ drawn' = 0
  /\ res' = NoResult
  /\ mu_f' = "None"
  /\ access' = "none"
  /\ UNCHANGED <<m, k, order, _states, enumCount, ctxUsed>>

\* _pam(theta, ctx) of perturb_and_map(noise_f)
PamBody(th) ==
  /\ pc' = "returned"
  /\ op' = "pam"
  /\ theta' = th
  /\ theta_2d' = <<>>
  /\ IF has_eps(ctx)
     THEN /\ drawn' = 0
          /\ ctx' = ctx
          /\ res' = StateVec(perturbed_map(th, ctx.eps, m, k, order))
     ELSE \E eps \in NoiseVecs(m) :
          /\ drawn' = m
          /\ ctx' = store_eps(ctx, eps)
          /\ res' = StateVec(perturbed_map(th, eps, m, k, order))
  /\ ctxUsed' = ~ctx.isNone
  /\ NoAccess
  /\ UNCHANGED <<m, k, order, mu_f>>

Pam ==
  /\ pc = "idle"
  /\ \E th \in Thetas(m) : PamBody(th)

\* the same call once more, as in a backward-side recomputation
PamAgain ==
  /\ pc = "returned"
  /\ op = "pam"
  /\ PamBody(theta)

\* _glp(theta, ctx) of grad_log_p(mu_f)
Glp ==
  /\ pc = "idle"
  /\ pc' = "returned"
  /\ op' = "glp"
  /\ \E th \in Thetas(m), f \in {"None", "alt"} :
       /\ theta' = th
       /\ mu_f' = f
       /\ IF f = "None"
          THEN LET a == states(_states, m, k)
               IN /\ Access(a)
                  /\ res' = IF a.err THEN Raised
                            ELSE glp_result(ctx, marginals(a.mat, th))
          ELSE /\ NoAccess
               /\ res' = glp_result(ctx, alt_mu(th, m, k, order))
  /\ theta_2d' = <<>>
  /\ drawn' = 0
  /\ UNCHANGED <<m, k, order, ctx, ctxUsed>>

NextTopK ==
  \/ Construct(MaxM)
  \/ States
  \/ NStates
  \/ Weights
  \/ LogPartition
  \/ Pmf
  \/ Marginals
  \/ Sample
  \/ BaseMap
  \/ Map
  \/ Return

SpecTopK == Init /\ [][NextTopK]_vars

\* the batched MAP beside the plain one
NextBatch ==
  \/ Construct(MaxMSmall)
  \/ Map
  \/ Map2d
  \/ Return

SpecBatch == Init /\ [][NextBatch]_vars

\* every operation of the instance, with the caller's context
Next ==
  \/ Construct(MaxMSmall)
  \/ States
  \/ NStates
  \/ Weights
  \/ LogPartition
  \/ Pmf
  \/ Marginals
  \/ Sample
  \/ BaseMap
  \/ Map
  \/ NewCtx
  \/ SetSample
  \/ Pam
  \/ PamAgain
  \/ Glp
  \/ Return

Spec == Init /\ [][Next]_vars

----------------------------------------------------------------------------
(* Properties *)

ValidParams == 1 <= k /\ k <= m

RECURSIVE Binomial(_, _)
Binomial(n, r) ==
  IF r < 0 \/ r > n THEN 0
  ELSE IF r = 0 \/ r = n THEN 1
  ELSE Binomial(n - 1, r - 1) + Binomial(n - 1, r)

Count(row, x) == Cardinality({j \in 1..Len(row) : row[j] = x})

Distinct(th) == \A i, j \in 1..Len(th) : th[i] = th[j] => i = j

\* C1: for valid (m, k) the materialized state matrix has exactly C(m, k)
\* rows, each of length m with k ones and m - k zeros, pairwise distinct.
C1_EnumerationExact ==
  (~_states.isNone /\ ValidParams) =>
    LET S == _states.mat
    IN /\ Len(S) = Binomial(m, k)
       /\ \A i \in 1..Len(S) :
             /\ Len(S[i]) = m
             /\ Count(S[i], 1) = k
             /\ Count(S[i], 0) = m - k
       /\ \A i, j \in 1..Len(S) : S[i] = S[j] => i = j

C1_Witness ==
  /\ ~_states.isNone
  /\ m = 3
  /\ k = 2
  /\ Len(_states.mat) = 3

\* C2: an instance exists only for 1 <= k <= m, and a state matrix is only
\* ever materialized for such parameters.
C2_InvalidRejected ==
  /\ pc # "new" => ValidParams
  /\ ~_states.isNone => ValidParams

\* C3 as stated: for every theta, TopK.map returns the state the generic map
\* (the row at the argmax of states @ theta) returns.
C3_MapAgreesAlways ==
  (pc = "returned" /\ op = "map" /\ ValidParams) =>
    res.val = base_map(mat_x(combinations(1, m, k), m), theta)

\* C3 amended: for every theta whose coordinates are pairwise distinct,
\* TopK.map returns the state the generic map returns.
C3_MapAgreesDistinct ==
  (pc = "returned" /\ op = "map" /\ ValidParams /\ Distinct(theta)) =>
    res.val = base_map(mat_x(combinations(1, m, k), m), theta)

C3_Witness ==
  /\ pc = "returned"
  /\ op = "map"
  /\ m = 3
  /\ k = 2
  /\ theta = <<0, -200, 200>>
  /\ res.val = <<1, 0, 1>>

\* C4: row i of map_2d(theta_2d) is map(theta_2d[i]) and has exactly k ones,
\* for every row of every batch (valid parameters).
C4_Map2dRowsAreMap ==
  (pc = "returned" /\ op = "map_2d" /\ ValidParams) =>
    /\ res.kind = "matrix"
    /\ Len(res.val) = Len(theta_2d)
    /\ \A i \in 1..Len(theta_2d) :
          /\ res.val[i] = map(theta_2d[i], m, k, order)
          /\ Count(res.val[i], 1) = k

C4_Witness ==
  /\ pc = "returned"
  /\ op = "map_2d"
  /\ m = 2
  /\ k = 1
  /\ theta_2d = << <<0, 200>>, <<200, 0>> >>
  /\ res.val = << <<0, 1>>, <<1, 0>> >>

\* C5: with one attribute-settable ctx, the first _pam call draws exactly m
\* noise values and leaves them in ctx.eps (length m); every later call draws
\* none and leaves ctx as it is; a call repeated with the same theta returns
\* the same state.
C5_NoiseDrawnOnce ==
  [][ (pc' = "returned" /\ op' = "pam" /\ ~ctx.isNone /\ ctx.settable) =>
        /\ ctx'.hasEps
        /\ Len(ctx'.eps) = m
        /\ \/ ~ctxUsed /\ drawn' = m
           \/ ctxUsed /\ drawn' = 0 /\ ctx' = ctx
        /\ (op = "pam" /\ theta' = theta) => res' = res
    ]_vars

C5_Witness ==
  /\ pc = "returned"
  /\ op = "pam"
  /\ ~ctx.isNone
  /\ ctx.settable
  /\ ctxUsed
  /\ drawn = 0
  /\ Len(ctx.eps) = m
  /\ m = 2

\* C6: _glp called with a ctx that has no sample (None included) raises.
C6_MissingSampleRaises ==
  (pc = "returned" /\ op = "glp" /\ (ctx.isNone \/ ~ctx.hasSample)) =>
    res = Raised

C6_Witness ==
  /\ pc = "returned"
  /\ op = "glp"
  /\ ~ctx.isNone
  /\ ~ctx.hasSample
  /\ ValidParams
  /\ res = Raised

\* C7: with ctx.sample = z, _glp returns z - mu(theta) coordinate by
\* coordinate, mu being mu_f when given and the exact marginals otherwise.
C7_GradIsSampleMinusMu ==
  (pc = "returned" /\ op = "glp" /\ ~ctx.isNone /\ ctx.hasSample /\ ValidParams) =>
    LET mu == IF mu_f = "None" THEN marginals(mat_x(combinations(1, m, k), m), theta)
              ELSE alt_mu(theta, m, k, order)
    IN /\ res.kind = "float"
       /\ res.val.k = IF mu.k = "fin" THEN "fin" ELSE IF mu.k = "inf" THEN "-inf" ELSE "nan"
       /\ mu.k = "fin" =>
            /\ Len(res.val.v) = m
            /\ \A j \in 1..m : res.val.v[j] = ctx.sample[j] * One - mu.v[j]

C7_Witness ==
  /\ pc = "returned"
  /\ op = "glp"
  /\ mu_f = "None"
  /\ m = 2
  /\ k = 1
  /\ theta = <<0, 0>>
  /\ ~ctx.isNone
  /\ ctx.sample = <<1, 0>>
  /\ res = FloatVec(Fin(<<500, -500>>))

\* C8: the state matrix is materialized at most once, by the first access
\* that succeeds; afterwards no operation changes or rebuilds it.
C8_StatesMemoized ==
  /\ enumCount = 0
  /\ [][ /\ enumCount' <= 1
         /\ ~_states.isNone => (_states' = _states /\ enumCount' = enumCount)
         /\ (_states.isNone /\ ~_states'.isNone) => (enumCount' = 1 /\ access' = "fresh")
         /\ (ValidParams /\ access' # "none") => (~_states'.isNone /\ enumCount' = 1)
         /\ access' = "cached" => (~_states.isNone /\ _states' = _states)
       ]_vars

C8_Witness ==
  /\ access = "cached"
  /\ enumCount = 1
  /\ ~_states.isNone
  /\ pc = "returned"
  /\ op = "marginals"
  /\ ValidParams

\* C9: every entry of pmf(theta) is >= 0 and the entries sum to 1, up to the
\* rounding of one unit per entry.
C9_PmfNormalized ==
  (pc = "returned" /\ op = "pmf" /\ res.kind = "float") =>
    /\ res.val.k = "fin"
    /\ \A i \in 1..Len(res.val.v) : res.val.v[i] >= 0
    /\ SumSeq(res.val.v) >= One - Len(res.val.v)
    /\ SumSeq(res.val.v) <= One + Len(res.val.v)

\* C10: no operation of the instance writes ctx.sample: _pam changes at most
\* ctx.eps, and _glp leaves ctx unchanged whether it returns or raises.
C10_SampleNeverWritten ==
  [][ pc' = "returned" =>
        /\ ctx'.hasSample = ctx.hasSample
        /\ ctx'.sample = ctx.sample
        /\ ctx'.isNone = ctx.isNone
        /\ ctx'.settable = ctx.settable
        /\ op' # "pam" => ctx' = ctx
    ]_vars

C10_Witness ==
  /\ pc = "returned"
  /\ op = "pam"
  /\ ctx.hasSample
  /\ ctx.hasEps
  /\ drawn = m
  /\ m = 2
=============================================================================
